---- MODULE Spec2Model ----
(***************************************************************************)
(* Model of the Plump game server (src/server.js, the "latest working      *)
(* version" that starts at line 714).  One game table is modelled: the     *)
(* game object kept in the `games` map, the module-level playerCardLocks   *)
(* map, the pending setTimeout continuations of the trick reveal, and the  *)
(* set of open socket connections.  Every socket.on handler is one action. *)
(***************************************************************************)
EXTENDS Integers, Sequences, FiniteSets, TLC

(***************************************************************************)
(* Bounds of the model.                                                    *)
(***************************************************************************)
NumSockets == 5          \* connection handles 1..NumSockets
MaxBid == 1              \* prediction payloads are drawn from 0..MaxBid
MaxShuffleOffset == 0    \* shuffles are drawn from a family of permutations
MaxEvents == 1           \* rejoins, disconnects, restarts and out-of-turn bids in one behaviour
MaxRounds == 1           \* rounds in which bids are taken in one behaviour
MaxSessionEvents == 4    \* disconnect / rejoinGame events of the pausing variant
MaxPlays == 8            \* cards accepted after one deal
FreeHand == 1            \* hands of at most FreeHand cards are played freely

(***************************************************************************)
(* Program constants.                                                      *)
(***************************************************************************)
NumPlayers == 4
DeckSize == 52
LastRound == 28
FirstRoundCards == 13
TenRule == 10

NULL == 0                \* JavaScript null / undefined for a socket id
NoSuit == "null"         \* JavaScript null for trumpSuit / leadSuit
NoName == "null"
NoPhase == "undefined"   \* game.previousPhase before any pause: the property is absent

SocketIds == 1..NumSockets
Names == <<"Ann", "Bob", "Cid", "Dan">>

SUITS == <<"hearts", "diamonds", "clubs", "spades">>

VALUES ==
  << [value |-> "A", rank |-> 14], [value |-> "K", rank |-> 13],
     [value |-> "Q", rank |-> 12], [value |-> "J", rank |-> 11],
     [value |-> "10", rank |-> 10], [value |-> "9", rank |-> 9],
     [value |-> "8", rank |-> 8], [value |-> "7", rank |-> 7],
     [value |-> "6", rank |-> 6], [value |-> "5", rank |-> 5],
     [value |-> "4", rank |-> 4], [value |-> "3", rank |-> 3],
     [value |-> "2", rank |-> 2] >>

WAITING_FOR_PLAYERS == "WAITING_FOR_PLAYERS"
DEALING == "DEALING"
MAKING_PREDICTIONS == "MAKING_PREDICTIONS"
SELECTING_TRUMP == "SELECTING_TRUMP"
PLAYING == "PLAYING"
PAUSED == "PAUSED"
GAME_OVER == "GAME_OVER"

\* error strings emitted to the sending socket
ErrNone == "none"
ErrNotFound == "Game not found"
ErrFull == "Game is full"
ErrNeedFour == "Need exactly 4 players to start"
ErrTrumpTurn == "Not your turn to select trump"
ErrAlreadyPlayed == "Already played a card in this trick"
ErrNotYourTurn == "Not your turn"
ErrWait == "Please wait for the current trick to complete"
ErrNoHand == "Player hand not found"
ErrNotInHand == "Card not in hand"
ErrFollowSuit == "Must follow suit"
ErrNoPlayer == "Could not find player info"
ErrBidTotal == "Your prediction cannot make the total equal cardsPerPlayer"

(***************************************************************************)
(* Small helpers for JavaScript arrays and objects.                        *)
(***************************************************************************)
Min(a, b) == IF a < b THEN a ELSE b
Max(a, b) == IF a > b THEN a ELSE b

\* Array.prototype.slice(start, end) on a sequence, 0-based, negative
\* indices counted from the end.
JsSlice(seq, start, end) ==
  LET n == Len(seq)
      s == IF start < 0 THEN Max(n + start, 0) ELSE Min(start, n)
      e == IF end < 0 THEN Max(n + end, 0) ELSE Min(end, n)
  IN IF s >= e THEN << >> ELSE SubSeq(seq, s + 1, e)

\* obj[key] = val on an object used as a map
Put(f, k, v) == [x \in DOMAIN f \cup {k} |-> IF x = k THEN v ELSE f[x]]
\* delete obj[key]
Del(f, k) == [x \in DOMAIN f \ {k} |-> f[x]]
\* obj[key] || 0
GetOr0(f, k) == IF k \in DOMAIN f THEN f[k] ELSE 0
EmptyMap == [x \in {} |-> 0]

RECURSIVE SumSeq(_)
SumSeq(seq) == IF seq = << >> THEN 0 ELSE Head(seq) + SumSeq(Tail(seq))

RECURSIVE SumMap(_)
\* Object.values(obj).reduce((sum, count) => sum + count, 0)
SumMap(f) ==
  IF DOMAIN f = {} THEN 0
  ELSE LET k == CHOOSE x \in DOMAIN f : TRUE IN f[k] + SumMap(Del(f, k))

\* players.findIndex(p => p.id === id), 0-based, -1 when absent
FindIndex(players, id) ==
  LET hits == {i \in 1..Len(players) : players[i].id = id}
  IN IF hits = {} THEN -1 ELSE (CHOOSE i \in hits : \A j \in hits : i <= j) - 1

\* players.findIndex(p => p.name === name), 0-based, -1 when absent
FindIndexByName(players, name) ==
  LET hits == {i \in 1..Len(players) : players[i].name = name}
  IN IF hits = {} THEN -1 ELSE (CHOOSE i \in hits : \A j \in hits : i <= j) - 1

PlayerIds(players) == {players[i].id : i \in 1..Len(players)}

getNextPlayerIndex(currentIndex, players) == (currentIndex + 1) % Len(players)

(***************************************************************************)
(* Cards, deck, shuffle, deal.                                             *)
(***************************************************************************)
Card(suit, value) == [suit |-> suit, value |-> value]

createDeck ==
  [i \in 1..DeckSize |->
     Card(SUITS[((i - 1) \div Len(VALUES)) + 1],
          VALUES[((i - 1) % Len(VALUES)) + 1].value)]

\* parseInt(card.value) for a value that is not in VALUES: NaN, which
\* compares false with everything; -1 stands for it.
NaN == -1

getCardValue(card) ==
  LET hits == {i \in 1..Len(VALUES) : VALUES[i].value = card.value}
  IN IF hits # {} THEN VALUES[CHOOSE i \in hits : TRUE].rank ELSE NaN

\* The outcomes of shuffleDeck that the model draws from: the permutations
\* i -> (7*i + b) mod 52 (7 is coprime to 52, and spreads the suits).
ShuffleMults == {7}
Shuffles == {<<a, b>> : a \in ShuffleMults, b \in 0..MaxShuffleOffset}

shuffleDeck(deck, sh) ==
  [i \in 1..Len(deck) |-> deck[((sh[1] * (i - 1) + sh[2]) % Len(deck)) + 1]]

\* hands[i % numPlayers].push(deck[i]) for the first cardsPerPlayer*numPlayers
\* cards; empty hands when the deck is too small.
dealCards(deck, numPlayers, cardsPerPlayer) ==
  IF cardsPerPlayer * numPlayers > Len(deck)
  THEN [h \in 1..numPlayers |-> << >>]
  ELSE [h \in 1..numPlayers |->
          [k \in 1..cardsPerPlayer |-> deck[(k - 1) * numPlayers + h]]]

\* the cardSchedule table of getCardsForRound, keyed by round number
cardSchedule ==
  << 13, 12, 11, 10, 9, 8, 7,
     6, 5, 4, 3, 2, 1,
     1, 1, 1, 2, 3, 4,
     5, 6, 7, 8, 9, 10,
     11, 12, 13 >>

\* cardSchedule[roundNumber] || 13
\* a variant that takes the schedule for two straight ramps
getCardsForRound_Ramps(roundNumber) ==
  IF roundNumber <= 13 THEN 14 - roundNumber ELSE roundNumber - 15

getCardsForRound(roundNumber) ==
  IF roundNumber \in 1..Len(cardSchedule) /\ cardSchedule[roundNumber] # 0
  THEN cardSchedule[roundNumber]
  ELSE FirstRoundCards

\* a variant that misses round 13
isSingleCardRound_Late(roundNumber) == roundNumber \in {14, 15, 16}

isSingleCardRound(roundNumber) == roundNumber \in {13, 14, 15, 16}

HasCard(hand, card) ==
  \E i \in 1..Len(hand) : hand[i].suit = card.suit /\ hand[i].value = card.value

HasSuit(hand, suit) == \E i \in 1..Len(hand) : hand[i].suit = suit

RemoveCard(hand, card) ==
  LET keep(c) == ~(c.suit = card.suit /\ c.value = card.value)
  IN SelectSeq(hand, keep)

(***************************************************************************)
(* State.                                                                  *)
(***************************************************************************)
VARIABLES
  games,      \* keys of the `games` map (at most the one modelled game)
  game,       \* the game object
  locks,      \* playerCardLocks: socket ids whose lock key is set
  timers,     \* pending reveal continuations, each with its captured winner
  live,       \* open socket connections
  reply,      \* last message emitted to the sender alone
  sent,       \* the messages the last step emitted: addressee and hand cards carried
  crashed,    \* an uncaught TypeError has terminated the process
  events,     \* rejoinGame / disconnect / startGame events handled so far
  rounds      \* round boundaries crossed so far

vars == <<games, game, locks, timers, live, reply, sent, crashed, events, rounds>>

GameId == "G"

Player(id, name) == [id |-> id, name |-> name, disconnected |-> FALSE]

NoReply == ErrNone
\* socket.emit('error', m): the message goes to the sending socket s alone
Error(s, m) == m

\* the object literal of the createGame handler
NewGame(s, playerName) ==
  [ phase |-> WAITING_FOR_PLAYERS,
    players |-> << Player(s, playerName) >>,
    scores |-> Put(EmptyMap, s, 0),
    plumps |-> Put(EmptyMap, s, 0),
    hands |-> EmptyMap,
    predictions |-> EmptyMap,
    tricks |-> EmptyMap,
    roundNumber |-> 0,
    cardsPerPlayer |-> 0,
    currentPlayer |-> NULL,
    currentPlayerName |-> NoName,
    dealer |-> playerName,
    dealerId |-> s,
    trumpSuit |-> NoSuit,
    leadSuit |-> NoSuit,
    currentTrick |-> << >>,
    isEvaluatingTrick |-> FALSE,
    highestBidder |-> NULL,
    previousPhase |-> NoPhase ]

\* the value of `game` while the games map is empty
NoGame == NewGame(NULL, NoName)

\* game.players.find(p => p.id === id).name; NoName stands for the TypeError
\* of reading .name of undefined
NameOf(players, id) ==
  LET i == FindIndex(players, id) IN IF i = -1 THEN NoName ELSE players[i + 1].name

IsPlayer(players, id) == FindIndex(players, id) # -1

(***************************************************************************)
(* Rules: validatePlay, getHighestBidder, evaluateTrick, calculateScores.  *)
(***************************************************************************)
Play(playerId, card) == [playerId |-> playerId, card |-> card]

\* the message of validatePlay's result, ErrNone when { valid: true }
validatePlay(g, lk, playerId, card) ==
  IF playerId \in lk THEN ErrAlreadyPlayed
  ELSE IF playerId \notin DOMAIN g.hands THEN ErrNoHand
  ELSE IF ~HasCard(g.hands[playerId], card) THEN ErrNotInHand
  ELSE IF Len(g.currentTrick) = 0 THEN ErrNone
  ELSE IF HasSuit(g.hands[playerId], g.leadSuit) /\ card.suit # g.leadSuit
       THEN ErrFollowSuit
  ELSE ErrNone

\* a variant that looks at the turn before the per-trick lock
playCardResult_TurnFirst(g, lk, s, card) ==
  IF s # g.currentPlayer THEN ErrNotYourTurn
  ELSE IF s \in lk THEN ErrAlreadyPlayed
  ELSE IF g.isEvaluatingTrick THEN ErrWait
  ELSE validatePlay(g, lk, s, card)

\* the checks of the playCard handler in the order the handler makes them
playCardResult(g, lk, s, card) ==
  IF s \in lk THEN ErrAlreadyPlayed
  ELSE IF s # g.currentPlayer THEN ErrNotYourTurn
  ELSE IF g.isEvaluatingTrick THEN ErrWait
  ELSE validatePlay(g, lk, s, card)

\* players in the order getHighestBidder walks them:
\* [...players.slice(dealerIndex + 1), ...players.slice(0, dealerIndex)]
playersInOrder(g) ==
  LET dealerIndex == FindIndex(g.players, g.dealerId)
  IN JsSlice(g.players, dealerIndex + 1, Len(g.players))
       \o JsSlice(g.players, 0, dealerIndex)

getHighestBidder(g) ==
  LET preds == g.predictions
      \* highestBid starts at -1 and is raised by every bid > highestBid
      highestBid == IF \E k \in DOMAIN preds : preds[k] > -1
                    THEN CHOOSE b \in {preds[k] : k \in DOMAIN preds} :
                           \A k \in DOMAIN preds : preds[k] <= b
                    ELSE -1
      highestBidders == {k \in DOMAIN preds : preds[k] = highestBid}
      order == playersInOrder(g)
      hits == {i \in 1..Len(order) : order[i].id \in highestBidders}
  IN IF Cardinality(highestBidders) = 1
     THEN CHOOSE k \in highestBidders : TRUE
     ELSE IF hits # {}
          THEN order[CHOOSE i \in hits : \A j \in hits : i <= j].id
          ELSE NULL

\* a > b on numbers where NaN compares false
JsGt(a, b) == a # NaN /\ b # NaN /\ a > b

\* one step of the reduce of evaluateTrick in a single-card round
singleStep(winner, play, leadSuit) ==
  IF play.card.suit = leadSuit
     /\ (winner.card.suit # leadSuit
         \/ JsGt(getCardValue(play.card), getCardValue(winner.card)))
  THEN play ELSE winner

\* a variant in which a trump does not beat the suit that was led
normalStep_NoTrump(winner, play, trumpSuit, leadSuit) ==
  IF play.card.suit = leadSuit
     /\ (winner.card.suit # leadSuit
         \/ getCardValue(play.card) > getCardValue(winner.card))
  THEN play ELSE winner

\* one step of the reduce of evaluateTrick in a normal round
normalStep(winner, play, trumpSuit, leadSuit) ==
  IF play.card.suit = trumpSuit /\ winner.card.suit # trumpSuit THEN play
  ELSE IF play.card.suit = trumpSuit /\ winner.card.suit = trumpSuit
       THEN (IF JsGt(getCardValue(play.card), getCardValue(winner.card))
             THEN play ELSE winner)
  ELSE IF play.card.suit = leadSuit /\ winner.card.suit # trumpSuit
          /\ (winner.card.suit # leadSuit
              \/ JsGt(getCardValue(play.card), getCardValue(winner.card)))
       THEN play
  ELSE winner

RECURSIVE reduceTrick(_, _, _, _, _)
reduceTrick(winner, rest, trumpSuit, leadSuit, single) ==
  IF rest = << >> THEN winner
  ELSE CHOOSE r \in
         {reduceTrick(w, Tail(rest), trumpSuit, leadSuit, single) :
            w \in {IF single THEN singleStep(winner, Head(rest), leadSuit)
                   ELSE normalStep(winner, Head(rest), trumpSuit, leadSuit)}} : TRUE

\* trick.reduce(...) without an initial value: the first play starts as winner
evaluateTrick(trick, trumpSuit, leadSuit, roundNumber) ==
  reduceTrick(Head(trick), Tail(trick), trumpSuit, leadSuit,
              isSingleCardRound(roundNumber))

\* the body of calculateScores' forEach for one player
scorePlayer(g, id) ==
  LET prediction == GetOr0(g.predictions, id)
      tricks == GetOr0(g.tricks, id)
      hit == prediction = tricks
      roundScore == IF hit
                    THEN (IF prediction >= TenRule THEN prediction * 10
                          ELSE prediction + 10)
                    ELSE 0
  IN [g EXCEPT
        !.plumps = IF hit THEN @ ELSE Put(@, id, GetOr0(@, id) + 1),
        !.scores = Put(@, id, GetOr0(@, id) + roundScore)]

RECURSIVE scoreFrom(_, _)
scoreFrom(g, i) ==
  IF i > Len(g.players) THEN g
  ELSE CHOOSE r \in {scoreFrom(g1, i + 1) : g1 \in {scorePlayer(g, g.players[i].id)}} : TRUE

calculateScores(g) == scoreFrom(g, 1)

(***************************************************************************)
(* Round start and the reconnection helpers.                               *)
(***************************************************************************)
RECURSIVE giveHands(_, _, _, _)
\* game.players.forEach((player, index) => { game.hands[player.id] =
\* hands[index]; game.tricks[player.id] = 0 })  (setTricks is false for the
\* loop of the startGame handler, which leaves game.tricks empty)
giveHands(g, hands, i, setTricks) ==
  IF i > Len(g.players) THEN g
  ELSE CHOOSE r \in
         {giveHands(g1, hands, i + 1, setTricks) :
            g1 \in {[g EXCEPT
                       !.hands = Put(@, g.players[i].id, hands[i]),
                       !.tricks = IF setTricks THEN Put(@, g.players[i].id, 0) ELSE @]}} : TRUE

\* a variant that skips a round number at every deal
startNewRound_Skip(g, sh) ==
  LET currentDealerIndex == FindIndex(g.players, g.dealerId)
      nextDealerIndex == getNextPlayerIndex(currentDealerIndex, g.players)
      firstPredictorIndex == getNextPlayerIndex(nextDealerIndex, g.players)
      roundNumber == g.roundNumber + 2
      cardsPerPlayer == getCardsForRound(roundNumber)
      g1 == [g EXCEPT !.dealerId = g.players[nextDealerIndex + 1].id,
                      !.dealer = g.players[nextDealerIndex + 1].name,
                      !.roundNumber = roundNumber,
                      !.cardsPerPlayer = cardsPerPlayer,
                      !.trumpSuit = NoSuit,
                      !.leadSuit = NoSuit,
                      !.currentTrick = << >>,
                      !.predictions = EmptyMap,
                      !.tricks = EmptyMap,
                      !.isEvaluatingTrick = FALSE,
                      !.currentPlayer = g.players[firstPredictorIndex + 1].id,
                      !.currentPlayerName = g.players[firstPredictorIndex + 1].name,
                      !.phase = MAKING_PREDICTIONS]
      hands == dealCards(shuffleDeck(createDeck, sh), NumPlayers, cardsPerPlayer)
  IN giveHands(g1, hands, 1, TRUE)

startNewRound(g, sh) ==
  LET currentDealerIndex == FindIndex(g.players, g.dealerId)
      nextDealerIndex == getNextPlayerIndex(currentDealerIndex, g.players)
      firstPredictorIndex == getNextPlayerIndex(nextDealerIndex, g.players)
      roundNumber == g.roundNumber + 1
      cardsPerPlayer == getCardsForRound(roundNumber)
      g1 == [g EXCEPT !.dealerId = g.players[nextDealerIndex + 1].id,
                      !.dealer = g.players[nextDealerIndex + 1].name,
                      !.roundNumber = roundNumber,
                      !.cardsPerPlayer = cardsPerPlayer,
                      !.trumpSuit = NoSuit,
                      !.leadSuit = NoSuit,
                      !.currentTrick = << >>,
                      !.predictions = EmptyMap,
                      !.tricks = EmptyMap,
                      !.isEvaluatingTrick = FALSE,
                      !.currentPlayer = g.players[firstPredictorIndex + 1].id,
                      !.currentPlayerName = g.players[firstPredictorIndex + 1].name,
                      !.phase = MAKING_PREDICTIONS]
      hands == dealCards(shuffleDeck(createDeck, sh), NumPlayers, cardsPerPlayer)
  IN giveHands(g1, hands, 1, TRUE)

\* the first player p with p.id === socketId, or whose name is the name of
\* a player with that id (the find of validateGameState); 0 when none
trickOwner(players, socketId) ==
  LET hits == {i \in 1..Len(players) :
                 \/ players[i].id = socketId
                 \/ \E j \in 1..Len(players) :
                      players[j].name = players[i].name /\ players[j].id = socketId}
  IN IF hits = {} THEN 0 ELSE CHOOSE i \in hits : \A j \in hits : i <= j

RECURSIVE consolidate(_, _, _)
\* the playerTricks loop of validateGameState
consolidate(players, tricks, acc) ==
  IF DOMAIN tricks = {} THEN acc
  ELSE LET k == CHOOSE x \in DOMAIN tricks : TRUE
           o == trickOwner(players, k)
       IN consolidate(players, Del(tricks, k),
                      IF o = 0 THEN acc
                      ELSE Put(acc, players[o].id, GetOr0(acc, players[o].id) + tricks[k]))

validateGameState(g) ==
  LET ids == PlayerIds(g.players)
      byName == FindIndexByName(g.players, g.currentPlayerName)
      g1 == IF g.currentPlayer # NULL /\ g.currentPlayer \notin ids /\ byName # -1
            THEN [g EXCEPT !.currentPlayer = g.players[byName + 1].id]
            ELSE g
      \* the predictions loop looks an id that is no player's up among the
      \* players' ids, finds nothing, and changes nothing
  IN [g1 EXCEPT !.tricks = consolidate(g.players, g.tricks, EmptyMap)]

recoverGameState(g) ==
  IF g.phase = SELECTING_TRUMP /\ g.highestBidder = NULL /\ getHighestBidder(g) # NULL
  THEN [g EXCEPT !.highestBidder = getHighestBidder(g),
                 !.currentPlayer = getHighestBidder(g),
                 !.currentPlayerName = NameOf(g.players, getHighestBidder(g))]
  ELSE g

\* the state transfer of the rejoinGame handler for one stateKey
transferKey(f, old, new, sum) ==
  IF old \notin DOMAIN f THEN f
  ELSE Del(Put(f, new, IF sum THEN GetOr0(f, new) + f[old] ELSE f[old]), old)

remapTrick(trick, old, new) ==
  [i \in 1..Len(trick) |->
     IF trick[i].playerId = old THEN [trick[i] EXCEPT !.playerId = new] ELSE trick[i]]

\* the rejoinGame handler's rewrite of the game from oldSocketId to socket.id
rejoinRewrite(g, old, new, playerName) ==
  LET playerIndex == FindIndex(g.players, old)
      g1 == [g EXCEPT
               !.currentTrick = remapTrick(@, old, new),
               !.predictions = transferKey(@, old, new, FALSE),
               !.hands = transferKey(@, old, new, FALSE),
               !.scores = transferKey(@, old, new, FALSE),
               !.plumps = transferKey(@, old, new, FALSE),
               !.tricks = transferKey(@, old, new, TRUE)]
      g2 == IF playerIndex = -1 THEN g1
            ELSE [g1 EXCEPT !.players[playerIndex + 1].id = new,
                            !.players[playerIndex + 1].disconnected = FALSE]
      g3 == IF g.currentPlayer = old
            THEN [g2 EXCEPT !.currentPlayer = new, !.currentPlayerName = playerName]
            ELSE g2
      g4 == IF g.highestBidder = old THEN [g3 EXCEPT !.highestBidder = new] ELSE g3
  IN recoverGameState(validateGameState(g4))

(***************************************************************************)
(* Messages.  A message is kept as its addressee and the cards of players' *)
(* hands it carries, each with the handle of the hand's owner.             *)
(***************************************************************************)
Room == 0                \* io.to(gameId): no socket has handle 0

HandOf(g, s) == IF s \in DOMAIN g.hands THEN g.hands[s] ELSE << >>

Msg(to, shown) == [to |-> to, shown |-> shown]

OwnCards(owner, hand) == {<<owner, hand[k]>> : k \in 1..Len(hand)}

\* the hand cards in the `hands` property of the game object
HandCards(g) == UNION {OwnCards(k, g.hands[k]) : k \in DOMAIN g.hands}

\* getGameState(game) has no `hands` property
StateToRoom == Msg(Room, {})

\* the raw game object sent to the room / to one socket
GameToRoom(g) == Msg(Room, HandCards(g))

GameTo(s, g) == Msg(s, HandCards(g))

\* io.to(player.id).emit('dealCards', hands[index]) for each player
dealOwn(players, hands) ==
  {Msg(players[i].id, OwnCards(players[i].id, hands[i])) : i \in 1..Len(players)}

\* the deal of a single-card round: each player is sent the opponents' cards
\* (hands[opponentIndex][0], which is undefined for an empty hand)
dealOpponents(players, hands) ==
  {Msg(players[i].id,
       {<<players[j].id, hands[j][1]>> :
          j \in {k \in 1..Len(players) :
                   players[k].id # players[i].id /\ Len(hands[k]) > 0}})
     : i \in 1..Len(players)}

\* the hands startNewRound deals in round roundNumber
dealtHands(roundNumber, sh) ==
  dealCards(shuffleDeck(createDeck, sh), NumPlayers, getCardsForRound(roundNumber))

\* the messages of startNewRound, g the game it leaves
roundMessages(g, sh) ==
  (IF isSingleCardRound(g.roundNumber)
   THEN dealOpponents(g.players, dealtHands(g.roundNumber, sh))
   ELSE dealOwn(g.players, dealtHands(g.roundNumber, sh)))
  \cup {StateToRoom}

\* the own-card messages when bidding closes in a single-card round
ownCardMessages(g) ==
  {Msg(g.players[i].id, OwnCards(g.players[i].id, HandOf(g, g.players[i].id)))
     : i \in 1..Len(g.players)}

(***************************************************************************)
(* Handlers.  Each takes the sending socket and the payload.               *)
(***************************************************************************)
Same == UNCHANGED <<games, game, locks, timers, live, crashed, events, rounds>>

\* a variant that sends the error to the whole room
Reject_ToRoom(s, m) == reply' = Error(s, m) /\ sent' = {Msg(Room, {})} /\ Same

\* socket.emit('error', m) and return
Reject(s, m) == reply' = Error(s, m) /\ sent' = {Msg(s, {})} /\ Same

createGame(s, playerName) ==
  /\ ~crashed /\ s \in live
  /\ games = {}
  /\ games' = {GameId}
  /\ game' = NewGame(s, playerName)
  /\ reply' = NoReply
  /\ sent' = {GameTo(s, game')}
  /\ UNCHANGED <<locks, timers, live, crashed, events, rounds>>

\* a variant without the 'Game is full' check
joinGame_NoLimit(s, playerName) ==
  /\ ~crashed /\ s \in live
  /\ IF games = {}
     THEN Reject(s, ErrNotFound)
     ELSE /\ game' = [game EXCEPT
                        !.players = Append(@, Player(s, playerName)),
                        !.scores = Put(@, s, 0),
                        !.plumps = Put(@, s, 0)]
          /\ reply' = NoReply
          /\ sent' = {GameTo(s, game'), GameToRoom(game')}
          /\ UNCHANGED <<games, locks, timers, live, crashed, events, rounds>>

joinGame(s, playerName) ==
  /\ ~crashed /\ s \in live
  /\ IF games = {}
     THEN Reject(s, ErrNotFound)
     ELSE IF Len(game.players) >= NumPlayers
     THEN Reject(s, ErrFull)
     ELSE /\ game' = [game EXCEPT
                        !.players = Append(@, Player(s, playerName)),
                        !.scores = Put(@, s, 0),
                        !.plumps = Put(@, s, 0)]
          /\ reply' = NoReply
          /\ sent' = {GameTo(s, game'), GameToRoom(game')}
          /\ UNCHANGED <<games, locks, timers, live, crashed, events, rounds>>

\* what the startGame handler makes of the game when it has 4 players
startGameRewrite(g, sh) ==
  LET g1 == [g EXCEPT !.phase = DEALING,
                      !.roundNumber = 1,
                      !.cardsPerPlayer = FirstRoundCards,
                      !.tricks = EmptyMap,
                      !.scores = EmptyMap,
                      !.hands = EmptyMap]
      hands == dealCards(shuffleDeck(createDeck, sh), NumPlayers, g1.cardsPerPlayer)
      g2 == giveHands(g1, hands, 1, FALSE)
      dealerIndex == FindIndex(g.players, g.dealerId)
      firstPredictorIndex == getNextPlayerIndex(dealerIndex, g.players)
  IN [g2 EXCEPT !.phase = MAKING_PREDICTIONS,
                !.currentPlayer = g.players[firstPredictorIndex + 1].id,
                !.currentPlayerName = g.players[firstPredictorIndex + 1].name,
                !.predictions = EmptyMap]

\* a startGame on a game that is already running counts as an event
startGame(s, sh) ==
  /\ ~crashed /\ s \in live
  /\ IF games = {}
     THEN Reject(s, ErrNotFound)
     ELSE IF Len(game.players) # NumPlayers
     THEN Reject(s, ErrNeedFour)
     ELSE /\ game.phase # WAITING_FOR_PLAYERS => events < MaxEvents
          /\ game' = startGameRewrite(game, sh)
          /\ sent' = dealOwn(game.players, dealtHands(1, sh))
                       \cup {StateToRoom}
                       \cup {Msg(game.players[i].id, {}) : i \in 1..Len(game.players)}
          /\ events' = IF game.phase # WAITING_FOR_PLAYERS THEN events + 1 ELSE events
          /\ reply' = NoReply
          /\ UNCHANGED <<games, locks, timers, live, crashed, rounds>>

\* the makePrediction handler's rewrite; crash is TRUE when reading .name of
\* the player found for highestBidder throws
predictionRewrite(g, s, prediction) ==
  LET g1 == [g EXCEPT !.predictions = Put(@, s, prediction)]
      n == Cardinality(DOMAIN g1.predictions)
      nextPlayerIndex == getNextPlayerIndex(FindIndex(g.players, s), g.players)
      hb == getHighestBidder(g1)
      g2 == [g1 EXCEPT !.phase = IF isSingleCardRound(g.roundNumber)
                                 THEN PLAYING ELSE SELECTING_TRUMP,
                       !.highestBidder = hb,
                       !.currentPlayer = hb]
  IN IF n < Len(g.players)
     THEN [g |-> [g1 EXCEPT !.currentPlayer = g.players[nextPlayerIndex + 1].id,
                            !.currentPlayerName = g.players[nextPlayerIndex + 1].name],
           crash |-> FALSE]
     ELSE IF n = Len(g.players)
     THEN IF IsPlayer(g.players, hb)
          THEN [g |-> [g2 EXCEPT !.currentPlayerName = NameOf(g.players, hb)],
                crash |-> FALSE]
          ELSE [g |-> g2, crash |-> TRUE]
     ELSE [g |-> g1, crash |-> FALSE]

\* the makePrediction handler; a bid of a socket other than currentPlayer
\* counts as an event, of which at most maxEvents are taken, and bids are
\* taken while fewer than maxRounds rounds have been dealt
makePredictionWithin(s, prediction, maxEvents, maxRounds) ==
  /\ ~crashed /\ s \in live
  /\ games # {} /\ game.phase = MAKING_PREDICTIONS
  /\ rounds < maxRounds
  /\ s # game.currentPlayer => events < maxEvents
  /\ game' = predictionRewrite(game, s, prediction).g
  /\ crashed' = predictionRewrite(game, s, prediction).crash
  /\ sent' = IF crashed' THEN {}
             ELSE IF game'.phase = PLAYING
             THEN ownCardMessages(game') \cup {StateToRoom}
             ELSE {StateToRoom}
  /\ events' = IF s # game.currentPlayer THEN events + 1 ELSE events
  /\ reply' = NoReply
  /\ UNCHANGED <<games, locks, timers, live, rounds>>

makePrediction(s, prediction) == makePredictionWithin(s, prediction, MaxEvents, MaxRounds)

selectTrump(s, suit) ==
  /\ ~crashed /\ s \in live
  /\ games # {} /\ game.phase = SELECTING_TRUMP
  /\ IF s # game.currentPlayer
     THEN Reject(s, ErrTrumpTurn)
     ELSE /\ game' = [game EXCEPT
                        !.trumpSuit = suit,
                        !.phase = PLAYING,
                        !.currentPlayer = game.highestBidder,
                        !.currentPlayerName =
                           IF IsPlayer(game.players, game.highestBidder)
                           THEN NameOf(game.players, game.highestBidder) ELSE @]
          /\ crashed' = ~IsPlayer(game.players, game.highestBidder)
          /\ sent' = IF crashed' THEN {} ELSE {GameToRoom(game')}
          /\ reply' = NoReply
          /\ UNCHANGED <<games, locks, timers, live, events, rounds>>

\* a variant that leaves the trick lock open on the 4th card
playRewrite_NoLock(g, s, card) ==
  LET trick == Append(g.currentTrick, Play(s, card))
      g1 == [g EXCEPT !.currentTrick = trick,
                      !.leadSuit = IF Len(trick) = 1 THEN card.suit ELSE @,
                      !.hands = Put(@, s, RemoveCard(g.hands[s], card))]
      winner == evaluateTrick(trick, g.trumpSuit, g1.leadSuit, g.roundNumber).playerId
      nextPlayerIndex == getNextPlayerIndex(FindIndex(g.players, s), g.players)
  IN IF Len(trick) = NumPlayers
     THEN [g |-> [g1 EXCEPT !.tricks = Put(@, winner, GetOr0(@, winner) + 1)],
           timer |-> << [winner |-> winner] >>]
     ELSE [g |-> [g1 EXCEPT !.currentPlayer = g.players[nextPlayerIndex + 1].id,
                            !.currentPlayerName = g.players[nextPlayerIndex + 1].name],
           timer |-> << >>]

\* the playCard handler's rewrite once every check has passed
playRewrite(g, s, card) ==
  LET trick == Append(g.currentTrick, Play(s, card))
      g1 == [g EXCEPT !.currentTrick = trick,
                      !.leadSuit = IF Len(trick) = 1 THEN card.suit ELSE @,
                      !.hands = Put(@, s, RemoveCard(g.hands[s], card))]
      winner == evaluateTrick(trick, g.trumpSuit, g1.leadSuit, g.roundNumber).playerId
      nextPlayerIndex == getNextPlayerIndex(FindIndex(g.players, s), g.players)
  IN IF Len(trick) = NumPlayers
     THEN [g |-> [g1 EXCEPT !.isEvaluatingTrick = TRUE,
                            !.tricks = Put(@, winner, GetOr0(@, winner) + 1)],
           timer |-> << [winner |-> winner] >>]
     ELSE [g |-> [g1 EXCEPT !.currentPlayer = g.players[nextPlayerIndex + 1].id,
                            !.currentPlayerName = g.players[nextPlayerIndex + 1].name],
           timer |-> << >>]

\* the cards that have left the players' hands since the deal
CardsPlayed(g) ==
  NumPlayers * g.cardsPerPlayer
    - SumSeq([i \in 1..Len(g.players) |->
                IF g.players[i].id \in DOMAIN g.hands
                THEN Len(g.hands[g.players[i].id]) ELSE 0])

\* the playCard handler; at most maxPlays cards of a round are played
playCardWithin(s, card, maxPlays) ==
  /\ ~crashed /\ s \in live
  /\ games # {} /\ game.phase = PLAYING
  /\ IF playCardResult(game, locks, s, card) # ErrNone
     THEN Reject(s, playCardResult(game, locks, s, card))
     ELSE IF CardsPlayed(game) >= maxPlays
     THEN FALSE
     ELSE IF ~IsPlayer(game.players, s)
     THEN \* game.players.find(p => p.id === socket.id).name throws with the
          \* lock already set
          /\ locks' = locks \cup {s}
          /\ crashed' = TRUE
          /\ reply' = NoReply
          /\ sent' = {}
          /\ UNCHANGED <<games, game, timers, live, events, rounds>>
     ELSE /\ locks' = locks \cup {s}
          /\ game' = playRewrite(game, s, card).g
          /\ timers' = timers \o playRewrite(game, s, card).timer
          /\ reply' = NoReply
          /\ sent' = {StateToRoom}
          /\ UNCHANGED <<games, live, crashed, events, rounds>>

playCard(s, card) == playCardWithin(s, card, MaxPlays)

\* the setTimeout continuation of the playCard handler; crash is TRUE when
\* reading .name of the player found for the captured winner throws
revealRewrite(g, winner, sh) ==
  LET g1 == [g EXCEPT !.currentTrick = << >>,
                      !.leadSuit = NoSuit,
                      !.isEvaluatingTrick = FALSE]
      totalTricks == SumMap(g1.tricks)
      scored == calculateScores(g1)
  IN IF totalTricks = g1.cardsPerPlayer
     THEN IF g1.roundNumber = LastRound
          THEN [g |-> [scored EXCEPT !.phase = GAME_OVER], crash |-> FALSE]
          ELSE [g |-> startNewRound(scored, sh), crash |-> FALSE]
     ELSE IF IsPlayer(g1.players, winner)
          THEN [g |-> [g1 EXCEPT !.currentPlayer = winner,
                                 !.currentPlayerName = NameOf(g1.players, winner)],
                crash |-> FALSE]
          ELSE [g |-> [g1 EXCEPT !.currentPlayer = winner], crash |-> TRUE]

\* TRUE when the continuation deals the next round
revealDeals(g) ==
  SumMap(g.tricks) = g.cardsPerPlayer /\ g.roundNumber # LastRound

\* the continuation fires; it deals while fewer than maxRounds rounds have
\* been dealt
RevealTimerWithin(sh, maxRounds) ==
  /\ ~crashed
  /\ timers # << >>
  /\ revealDeals(game) => rounds < maxRounds
  /\ locks' = locks \ PlayerIds(game.players)
  /\ game' = revealRewrite(game, Head(timers).winner, sh).g
  /\ crashed' = revealRewrite(game, Head(timers).winner, sh).crash
  /\ timers' = Tail(timers)
  /\ rounds' = IF revealDeals(game) THEN rounds + 1 ELSE rounds
  /\ reply' = NoReply
  /\ sent' = IF crashed' THEN {}
             ELSE IF revealDeals(game) THEN roundMessages(game', sh)
             ELSE {StateToRoom}
  /\ UNCHANGED <<games, live, events>>

RevealTimer(sh) == RevealTimerWithin(sh, MaxRounds)

disconnect(s) ==
  /\ ~crashed /\ s \in live
  /\ events < MaxEvents
  /\ live' = live \ {s}
  /\ game' = IF games # {} /\ IsPlayer(game.players, s)
             THEN [game EXCEPT !.players[FindIndex(game.players, s) + 1].disconnected = TRUE]
             ELSE game
  /\ events' = events + 1
  /\ reply' = NoReply
  /\ sent' = IF games # {} /\ IsPlayer(game.players, s) THEN {StateToRoom} ELSE {}
  /\ UNCHANGED <<games, locks, timers, crashed, rounds>>

\* the endRound handler: cleanupCardLocks drops every lock of the game (with
\* no lock to drop the handler changes nothing)
endRound(s) ==
  /\ ~crashed /\ s \in live
  /\ locks # {}
  /\ events < MaxEvents
  /\ locks' = {}
  /\ events' = events + 1
  /\ reply' = NoReply
  /\ sent' = {}
  /\ UNCHANGED <<games, game, timers, live, crashed, rounds>>

\* oldSocketId of the rejoinGame handler: no entry of disconnectedPlayers has
\* a playerName field, so it is the id of the first player of that name
oldSocketId(g, playerName) ==
  LET i == FindIndexByName(g.players, playerName)
  IN IF i = -1 THEN NULL ELSE g.players[i + 1].id

rejoinGame(s, playerName) ==
  /\ ~crashed /\ s \in live
  /\ IF games = {}
     THEN Reject(s, ErrNotFound)
     ELSE IF oldSocketId(game, playerName) = NULL
     THEN Reject(s, ErrNoPlayer)
     ELSE /\ events < MaxEvents
          /\ game' = rejoinRewrite(game, oldSocketId(game, playerName), s, playerName)
          /\ events' = events + 1
          /\ reply' = NoReply
          /\ sent' = {GameTo(s, game'), Msg(s, OwnCards(s, HandOf(game', s))), StateToRoom}
          /\ UNCHANGED <<games, locks, timers, live, crashed, rounds>>

(***************************************************************************)
(* The session handlers of the first listing of server.js, the variant     *)
(* that pauses the game while the player to act is away.                   *)
(***************************************************************************)
AllConnected(players) == \A i \in 1..Len(players) : ~players[i].disconnected

\* `if (game.hands[old]) { game.hands[new] = game.hands[old]; delete ... }`:
\* a hand is an array, and every array is truthy
transferHand(f, old, new) ==
  IF old \in DOMAIN f THEN Del(Put(f, new, f[old]), old) ELSE f

\* the same for predictions and tricks, whose values are numbers: 0 is falsy
transferCount(f, old, new) ==
  IF old \in DOMAIN f /\ f[old] # 0 THEN Del(Put(f, new, f[old]), old) ELSE f

\* the disconnect handler; at most maxEvents disconnects and rejoins are taken
disconnectOldWithin(s, maxEvents) ==
  /\ ~crashed /\ s \in live
  /\ events < maxEvents
  /\ live' = live \ {s}
  /\ game' = IF games # {} /\ IsPlayer(game.players, s)
             THEN LET g1 == [game EXCEPT
                               !.players[FindIndex(game.players, s) + 1].disconnected = TRUE]
                  IN IF game.currentPlayer = s
                     THEN [g1 EXCEPT !.previousPhase = game.phase, !.phase = PAUSED]
                     ELSE g1
             ELSE game
  /\ events' = events + 1
  /\ reply' = NoReply
  /\ sent' = IF games # {} /\ IsPlayer(game.players, s) THEN {GameToRoom(game')} ELSE {}
  /\ UNCHANGED <<games, locks, timers, crashed, rounds>>

disconnectOld(s) == disconnectOldWithin(s, MaxSessionEvents)

\* a variant that resumes as soon as anyone rejoins
resumeOld_Eager(g) ==
  IF g.phase = PAUSED THEN [g EXCEPT !.phase = g.previousPhase] ELSE g

\* 'Resume game if appropriate'
resumeOld(g) ==
  IF g.phase = PAUSED /\ AllConnected(g.players)
  THEN [g EXCEPT !.phase = g.previousPhase]
  ELSE g

rejoinRewriteOld(g, playerName, new) ==
  LET i == FindIndexByName(g.players, playerName) + 1
      old == g.players[i].id
  IN resumeOld(
       [g EXCEPT
          !.players[i].id = new,
          !.players[i].disconnected = FALSE,
          !.currentPlayer = IF @ = old THEN new ELSE @,
          !.highestBidder = IF @ = old THEN new ELSE @,
          !.hands = transferHand(@, old, new),
          !.predictions = transferCount(@, old, new),
          !.tricks = transferCount(@, old, new)])

\* the handler answers nothing when the game or the player is not found
rejoinGameOldWithin(s, playerName, maxEvents) ==
  /\ ~crashed /\ s \in live
  /\ reply' = NoReply
  /\ IF games = {} \/ FindIndexByName(game.players, playerName) = -1
     THEN Same /\ sent' = {}
     ELSE /\ events < maxEvents
          /\ game' = rejoinRewriteOld(game, playerName, s)
          /\ sent' = {GameTo(s, game'), GameToRoom(game')}
          /\ events' = events + 1
          /\ UNCHANGED <<games, locks, timers, live, crashed, rounds>>

rejoinGameOld(s, playerName) == rejoinGameOldWithin(s, playerName, MaxSessionEvents)

(***************************************************************************)
(* The game handlers of the pausing variant (the first listing).           *)
(***************************************************************************)
\* valueOrder[value] || parseInt(value): every value of the deck has a rank
getCardValueOld(card) ==
  VALUES[CHOOSE i \in 1..Len(VALUES) : VALUES[i].value = card.value].rank

validatePlayOld(g, playerId, card) ==
  IF playerId \notin DOMAIN g.hands THEN ErrNoHand
  ELSE IF ~HasCard(g.hands[playerId], card) THEN ErrNotInHand
  ELSE IF Len(g.currentTrick) = 0 THEN ErrNone
  ELSE IF HasSuit(g.hands[playerId], g.leadSuit) /\ card.suit # g.leadSuit
       THEN ErrFollowSuit
  ELSE ErrNone

\* the checks of the playCard handler after its phase test
playCardResultOld(g, s, card) ==
  IF s # g.currentPlayer THEN ErrNotYourTurn
  ELSE IF g.isEvaluatingTrick THEN ErrWait
  ELSE validatePlayOld(g, s, card)

stepOld(winner, play, trumpSuit, leadSuit) ==
  IF play.card.suit = trumpSuit /\ winner.card.suit # trumpSuit THEN play
  ELSE IF play.card.suit = trumpSuit /\ winner.card.suit = trumpSuit
       THEN (IF getCardValueOld(play.card) > getCardValueOld(winner.card)
             THEN play ELSE winner)
  ELSE IF play.card.suit = leadSuit /\ winner.card.suit # trumpSuit
          /\ (winner.card.suit # leadSuit
              \/ getCardValueOld(play.card) > getCardValueOld(winner.card))
       THEN play
  ELSE winner

RECURSIVE reduceTrickOld(_, _, _, _)
reduceTrickOld(winner, rest, trumpSuit, leadSuit) ==
  IF rest = << >> THEN winner
  ELSE reduceTrickOld(stepOld(winner, Head(rest), trumpSuit, leadSuit),
                      Tail(rest), trumpSuit, leadSuit)

evaluateTrickOld(trick, trumpSuit, leadSuit) ==
  reduceTrickOld(Head(trick), Tail(trick), trumpSuit, leadSuit)

\* 'Calculate cards for this round'
cardsForRoundOld(roundNumber) ==
  IF roundNumber <= 13 THEN 14 - roundNumber
  ELSE IF roundNumber <= 16 THEN 1
  ELSE roundNumber - 15

startNewRoundOld(g, sh) ==
  LET roundNumber == g.roundNumber + 1
      cardsPerPlayer == cardsForRoundOld(roundNumber)
      currentDealerIndex == FindIndex(g.players, g.dealerId)
      nextDealerIndex == getNextPlayerIndex(currentDealerIndex, g.players)
      firstPlayerIndex == getNextPlayerIndex(nextDealerIndex, g.players)
      g1 == [g EXCEPT !.roundNumber = roundNumber,
                      !.tricks = EmptyMap,
                      !.predictions = EmptyMap,
                      !.trumpSuit = NoSuit,
                      !.leadSuit = NoSuit,
                      !.currentTrick = << >>,
                      !.highestBidder = NULL,
                      !.cardsPerPlayer = cardsPerPlayer,
                      !.hands = EmptyMap,
                      !.dealerId = g.players[nextDealerIndex + 1].id,
                      !.dealer = g.players[nextDealerIndex + 1].name,
                      !.currentPlayer = g.players[firstPlayerIndex + 1].id,
                      !.currentPlayerName = g.players[firstPlayerIndex + 1].name,
                      !.phase = MAKING_PREDICTIONS]
      hands == dealCards(shuffleDeck(createDeck, sh), NumPlayers, cardsPerPlayer)
  IN giveHands(g1, hands, 1, TRUE)

\* the messages of that startNewRound and of the caller's closing emit
roundMessagesOld(g, sh) ==
  LET hands == dealCards(shuffleDeck(createDeck, sh), NumPlayers, g.cardsPerPlayer)
  IN (IF g.roundNumber >= 13 /\ g.roundNumber <= 16
      THEN dealOpponents(g.players, hands)
      ELSE dealOwn(g.players, hands))
     \cup {GameToRoom(g)}

\* the bidders the loop over Object.entries(game.predictions) can find first
\* (a 1 in a single-card round, else the highest bid).  The entries come in
\* insertion order, which a rejoin changes by moving a key to the end; the
\* predictions map of the model keeps no order, so any of them may be first.
firstBidders(g, single) ==
  LET ids == DOMAIN g.predictions
      top == {k \in ids : \A j \in ids : g.predictions[j] <= g.predictions[k]}
      ones == {k \in ids : g.predictions[k] = 1}
  IN IF single THEN (IF ones = {} THEN {g.currentPlayer} ELSE ones) ELSE top

\* the makePrediction handler's rewrite with `starter` found first
predictionRewriteOld(g, s, prediction, starter) ==
  LET g1 == [g EXCEPT !.predictions = Put(@, s, prediction)]
      single == g.roundNumber >= 13 /\ g.roundNumber <= 16
      nextPlayerIndex == getNextPlayerIndex(FindIndex(g.players, s), g.players)
  IN IF Cardinality(DOMAIN g1.predictions) = 4
     THEN [g1 EXCEPT !.phase = IF single THEN PLAYING ELSE SELECTING_TRUMP,
                     !.currentPlayer = starter,
                     !.currentPlayerName = NameOf(g.players, starter),
                     !.highestBidder = starter]
     ELSE [g1 EXCEPT !.currentPlayer = g.players[nextPlayerIndex + 1].id,
                     !.currentPlayerName = g.players[nextPlayerIndex + 1].name]

\* 'Only validate the last predictor'
lastPredictorBlocked(g, prediction) ==
  Cardinality(DOMAIN g.predictions) = 3
    /\ SumMap(g.predictions) + prediction = g.cardsPerPlayer

makePredictionOld(s, prediction) ==
  /\ ~crashed /\ s \in live
  /\ games # {} /\ game.phase = MAKING_PREDICTIONS
  /\ rounds < MaxRounds
  /\ IF s # game.currentPlayer THEN Reject(s, ErrNotYourTurn)
     ELSE IF lastPredictorBlocked(game, prediction) THEN Reject(s, ErrBidTotal)
     ELSE LET g1 == [game EXCEPT !.predictions = Put(@, s, prediction)]
              single == game.roundNumber >= 13 /\ game.roundNumber <= 16
          IN \E starter \in firstBidders(g1, single) :
               /\ game' = predictionRewriteOld(game, s, prediction, starter)
               /\ sent' = (IF game'.phase = PLAYING THEN ownCardMessages(game') ELSE {})
                            \cup {GameToRoom(game')}
               /\ reply' = NoReply
               /\ UNCHANGED <<games, locks, timers, live, crashed, events, rounds>>

\* the selectTrump handler; highestBidder is set whenever the phase is
\* SELECTING_TRUMP, and reading .name of a player not found throws
selectTrumpOld(s, suit) ==
  /\ ~crashed /\ s \in live
  /\ games # {} /\ game.phase = SELECTING_TRUMP
  /\ IF s # game.currentPlayer THEN Reject(s, ErrTrumpTurn)
     ELSE /\ game' = [game EXCEPT
                        !.trumpSuit = suit,
                        !.phase = PLAYING,
                        !.currentPlayer = game.highestBidder,
                        !.currentPlayerName = NameOf(game.players, game.highestBidder)]
          /\ crashed' = ~IsPlayer(game.players, game.highestBidder)
          /\ sent' = IF crashed' THEN {} ELSE {GameToRoom(game')}
          /\ reply' = NoReply
          /\ UNCHANGED <<games, locks, timers, live, events, rounds>>

\* the playCard handler's rewrite once every check has passed
playRewriteOld(g, s, card) ==
  LET trick == Append(g.currentTrick, Play(s, card))
      g1 == [g EXCEPT !.hands = Put(@, s, RemoveCard(g.hands[s], card)),
                      !.currentTrick = trick,
                      !.leadSuit = IF Len(trick) = 1 THEN card.suit ELSE @]
      winner == evaluateTrickOld(trick, g.trumpSuit, g1.leadSuit).playerId
      nextPlayerIndex == getNextPlayerIndex(FindIndex(g.players, s), g.players)
  IN IF Len(trick) = 4
     THEN [g |-> [g1 EXCEPT !.isEvaluatingTrick = TRUE,
                            !.tricks = Put(@, winner, GetOr0(@, winner) + 1)],
           timer |-> << [winner |-> winner] >>,
           crash |-> ~IsPlayer(g.players, winner)]
     ELSE [g |-> [g1 EXCEPT !.currentPlayer = g.players[nextPlayerIndex + 1].id,
                            !.currentPlayerName = g.players[nextPlayerIndex + 1].name],
           timer |-> << >>,
           crash |-> FALSE]

\* the playCard handler; the TypeError of the trickWinner lookup comes
\* before the timer is set
playCardOld(s, card) ==
  /\ ~crashed /\ s \in live
  /\ games # {} /\ game.phase = PLAYING
  /\ IF playCardResultOld(game, s, card) # ErrNone
     THEN Reject(s, playCardResultOld(game, s, card))
     ELSE /\ CardsPlayed(game) < MaxPlays
          /\ game' = playRewriteOld(game, s, card).g
          /\ crashed' = playRewriteOld(game, s, card).crash
          /\ timers' = IF crashed' THEN timers
                       ELSE timers \o playRewriteOld(game, s, card).timer
          /\ reply' = NoReply
          /\ sent' = IF crashed' THEN {}
                     ELSE {GameToRoom(game')}
          /\ UNCHANGED <<games, locks, live, events, rounds>>

\* the body of the continuation's forEach for one player; a missing
\* prediction is undefined, which equals no trick count
scorePlayerOld(g, id) ==
  LET trickCount == GetOr0(g.tricks, id)
      hit == id \in DOMAIN g.predictions /\ trickCount = g.predictions[id]
      prediction == GetOr0(g.predictions, id)
      points == IF prediction >= 10 /\ prediction <= 13 THEN prediction * 10
                ELSE prediction + 10
  IN IF hit
     THEN [g EXCEPT !.scores = Put(@, id, GetOr0(@, id) + points)]
     ELSE [g EXCEPT !.plumps = Put(@, id, GetOr0(@, id) + 1)]

RECURSIVE scoreFromOld(_, _)
scoreFromOld(g, i) ==
  IF i > Len(g.players) THEN g
  ELSE scoreFromOld(scorePlayerOld(g, g.players[i].id), i + 1)

\* the setTimeout continuation of that playCard handler: no test of the phase
revealRewriteOld(g, winner, sh) ==
  LET g1 == [g EXCEPT !.currentTrick = << >>,
                      !.leadSuit = NoSuit,
                      !.isEvaluatingTrick = FALSE]
      scored == scoreFromOld(g1, 1)
  IN IF SumMap(g1.tricks) = g1.cardsPerPlayer
     THEN IF g1.roundNumber = 28
          THEN [g |-> [scored EXCEPT !.phase = GAME_OVER], crash |-> FALSE]
          ELSE [g |-> startNewRoundOld(scored, sh), crash |-> FALSE]
     ELSE [g |-> [g1 EXCEPT !.currentPlayer = winner,
                            !.currentPlayerName = NameOf(g1.players, winner)],
           crash |-> ~IsPlayer(g1.players, winner)]

RevealTimerOld(sh) ==
  /\ ~crashed
  /\ timers # << >>
  /\ revealDeals(game) => rounds < MaxRounds
  /\ game' = revealRewriteOld(game, Head(timers).winner, sh).g
  /\ crashed' = revealRewriteOld(game, Head(timers).winner, sh).crash
  /\ timers' = Tail(timers)
  /\ rounds' = IF revealDeals(game) THEN rounds + 1 ELSE rounds
  /\ reply' = NoReply
  /\ sent' = IF crashed' THEN {}
             ELSE IF revealDeals(game) THEN roundMessagesOld(game', sh)
             ELSE {GameToRoom(game')}
  /\ UNCHANGED <<games, locks, live, events>>

(***************************************************************************)
(* Inputs the model draws.                                                 *)
(***************************************************************************)
PredictionInputs == 0..MaxBid

\* the cards of the deck, in deck order, that pass / fail a test
FirstOf(cards) ==
  LET hits == {i \in 1..DeckSize : createDeck[i] \in cards}
  IN IF hits = {} THEN {} ELSE {createDeck[CHOOSE i \in hits : \A j \in hits : i <= j]}

Cards(hand) == {hand[i] : i \in 1..Len(hand)}

Follows(g, s, card) ==
  Len(g.currentTrick) = 0 \/ ~HasSuit(HandOf(g, s), g.leadSuit) \/ card.suit = g.leadSuit

\* the cards socket s submits: every card of a hand of at most FreeHand
\* cards, otherwise the first card that follows suit and the first that does
\* not; and always one card that is not in the hand
PlayInputs(g, s) ==
  LET hand == Cards(HandOf(g, s))
      deck == {createDeck[i] : i \in 1..DeckSize}
  IN (IF Cardinality(hand) <= FreeHand THEN hand
      ELSE FirstOf({c \in hand : Follows(g, s, c)})
             \cup FirstOf({c \in hand : ~Follows(g, s, c)}))
     \cup FirstOf(deck \ hand)

(***************************************************************************)
(* Initial states: the server with no game, or a game whose round r has    *)
(* just been dealt by startNewRound after r-1 rounds in which every player *)
(* missed the prediction.                                                  *)
(***************************************************************************)
InitRounds == {13, 17}

Seated ==
  [NewGame(1, Names[1]) EXCEPT
     !.players = [i \in 1..NumPlayers |-> Player(i, Names[i])],
     !.scores = [i \in 1..NumPlayers |-> 0],
     !.plumps = [i \in 1..NumPlayers |-> 0]]

RoundDealt(r, sh) ==
  startNewRound(
    [Seated EXCEPT
       !.phase = PLAYING,
       !.roundNumber = r - 1,
       !.cardsPerPlayer = getCardsForRound(r - 1),
       !.dealerId = Seated.players[((r - 2) % NumPlayers) + 1].id,
       !.dealer = Seated.players[((r - 2) % NumPlayers) + 1].name,
       !.plumps = [i \in 1..NumPlayers |-> r - 1],
       !.hands = [i \in 1..NumPlayers |-> << >>],
       !.highestBidder = Seated.players[1].id],
    sh)

InitCommon ==
  /\ locks = {}
  /\ timers = << >>
  /\ live = SocketIds
  /\ reply = NoReply
  /\ sent = {}
  /\ crashed = FALSE
  /\ events = 0
  /\ rounds = 0

Init ==
  /\ InitCommon
  /\ \E r \in InitRounds, sh \in Shuffles :
       games = {GameId} /\ game = RoundDealt(r, sh)

TrumpInputs == {SUITS[1], SUITS[4]}

\* the game actions, sent by any open socket
Game ==
  \/ \E s \in SocketIds, v \in PredictionInputs : makePrediction(s, v)
  \/ \E s \in SocketIds, suit \in TrumpInputs : selectTrump(s, suit)
  \/ \E s \in SocketIds : \E c \in PlayInputs(game, s) : playCard(s, c)
  \/ \E sh \in Shuffles : RevealTimer(sh)

\* the session events
Session ==
  \/ \E s \in SocketIds, sh \in Shuffles : startGame(s, sh)
  \/ \E s \in SocketIds : disconnect(s)
  \/ \E s \in SocketIds : endRound(s)
  \/ \E s \in SocketIds, i \in 1..Len(Names) : rejoinGame(s, Names[i])

Next == Game \/ Session

Spec == Init /\ [][Next]_vars

(***************************************************************************)
(* The trick specification: a trick played by four players who hold one    *)
(* card each, the only trick of round 13 or the second trick of round 17.  *)
(***************************************************************************)
TrickRounds == {13, 17}

TrickCards ==
  {Card("hearts", "K"), Card("hearts", "10"), Card("hearts", "9"),
   Card("spades", "A"), Card("spades", "2"),
   Card("clubs", "J"), Card("diamonds", "5")}

TrickLeaders == {3}

\* round r with one card left in every hand and seat lead to play first
TrickDealt(r, h, lead, trump) ==
  [RoundDealt(r, <<7, 0>>) EXCEPT
     !.phase = PLAYING,
     !.hands = [i \in 1..NumPlayers |-> << h[i] >>],
     !.predictions = [i \in 1..NumPlayers |-> 0],
     !.tricks = [i \in 1..NumPlayers |->
                   IF i = lead THEN getCardsForRound(r) - 1 ELSE 0],
     !.trumpSuit = IF isSingleCardRound(r) THEN NoSuit ELSE trump,
     !.highestBidder = Seated.players[lead].id,
     !.currentPlayer = Seated.players[lead].id,
     !.currentPlayerName = Seated.players[lead].name]

InitTrick ==
  /\ InitCommon
  /\ games = {GameId}
  /\ \E r \in TrickRounds, lead \in TrickLeaders :
     \E trump \in {SUITS[i] : i \in 1..Len(SUITS)} :
     \E h \in [1..NumPlayers -> TrickCards] :
       /\ \A i, j \in 1..NumPlayers : i # j => h[i] # h[j]
       /\ isSingleCardRound(r) => trump = SUITS[1]
       /\ game = TrickDealt(r, h, lead, trump)

NextTrick == \E s \in SocketIds : \E c \in PlayInputs(game, s) : playCard(s, c)

SpecTrick == InitTrick /\ [][NextTrick]_vars

(***************************************************************************)
(* The round specification: a lobby of four players, or round q with its   *)
(* last trick on the table and the reveal continuation pending.            *)
(***************************************************************************)
EndingRounds == 1..LastRound

\* round q after its last card: seat w bid 1, led every trick and won it
RoundEnding(q, w) ==
  LET cards == getCardsForRound(q)
      seat(k) == ((w - 1 + k) % NumPlayers) + 1
  IN [Seated EXCEPT
        !.phase = PLAYING,
        !.roundNumber = q,
        !.cardsPerPlayer = cards,
        !.dealerId = Seated.players[((q - 1) % NumPlayers) + 1].id,
        !.dealer = Seated.players[((q - 1) % NumPlayers) + 1].name,
        !.plumps = [i \in 1..NumPlayers |-> q - 1],
        !.hands = [i \in 1..NumPlayers |-> << >>],
        !.predictions = [i \in 1..NumPlayers |-> IF i = w THEN 1 ELSE 0],
        !.tricks = [i \in 1..NumPlayers |-> IF i = w THEN cards ELSE 0],
        !.trumpSuit = IF isSingleCardRound(q) THEN NoSuit ELSE SUITS[1],
        !.leadSuit = SUITS[1],
        !.currentTrick = [k \in 1..NumPlayers |->
                            Play(Seated.players[seat(k - 1)].id,
                                 Card(SUITS[1], VALUES[k].value))],
        !.isEvaluatingTrick = TRUE,
        !.highestBidder = Seated.players[w].id,
        !.currentPlayer = Seated.players[seat(NumPlayers - 1)].id,
        !.currentPlayerName = Seated.players[seat(NumPlayers - 1)].name]

InitRounds28 ==
  /\ live = SocketIds
  /\ reply = NoReply
  /\ sent = {}
  /\ crashed = FALSE
  /\ events = 0
  /\ rounds = 0
  /\ games = {GameId}
  /\ \/ /\ game = Seated
        /\ locks = {}
        /\ timers = << >>
     \/ \E q \in EndingRounds, w \in 1..NumPlayers :
          /\ game = RoundEnding(q, w)
          /\ locks = PlayerIds(Seated.players)
          /\ timers = << [winner |-> Seated.players[w].id] >>

NextRounds ==
  \/ \E sh \in Shuffles : RevealTimer(sh)
  \/ \E s \in SocketIds, sh \in Shuffles : startGame(s, sh)
  \/ \E s \in SocketIds, i \in 1..Len(Names) : rejoinGame(s, Names[i])

SpecRounds == InitRounds28 /\ [][NextRounds]_vars

(***************************************************************************)
(* The lobby specification: the server with no game; a game is created,    *)
(* joined and started.                                                     *)
(***************************************************************************)
\* the sockets that send joinGame: the host's and the next unused one
JoinSockets(g) == {1, Min(Len(g.players) + 1, NumSockets)}

\* the names they send: the host's and the next unused one
JoinNames(g) == {Names[1], Names[Min(Len(g.players) + 1, Len(Names))]}

InitLobby ==
  /\ InitCommon
  /\ games = {}
  /\ game = NoGame

NextLobby ==
  \/ createGame(1, Names[1])
  \/ \E s \in JoinSockets(game) : \E n \in JoinNames(game) : joinGame(s, n)
  \/ \E s \in SocketIds, sh \in Shuffles : startGame(s, sh)
  \/ \E s \in SocketIds, i \in 1..Len(Names) : rejoinGame(s, Names[i])
  \/ \E s \in SocketIds : disconnect(s)

SpecLobby == InitLobby /\ [][NextLobby]_vars

(***************************************************************************)
(* The pause specification: a running game of the pausing variant, whose   *)
(* players disconnect and rejoin.                                          *)
(***************************************************************************)
PauseRound == 17

\* disconnects and rejoins taken while a round is played
MaxHaltEvents == 1

\* the round after the four bids, seat w the only one to bid 1
BidsMade(w, sh) ==
  [RoundDealt(PauseRound, sh) EXCEPT
     !.phase = SELECTING_TRUMP,
     !.predictions = [i \in 1..NumPlayers |-> IF i = w THEN 1 ELSE 0],
     !.highestBidder = Seated.players[w].id,
     !.currentPlayer = Seated.players[w].id,
     !.currentPlayerName = Seated.players[w].name]

\* the same round once seat w has chosen trumps and is to lead
TrumpChosen(w, sh) ==
  [BidsMade(w, sh) EXCEPT !.phase = PLAYING, !.trumpSuit = SUITS[1]]

InitPause ==
  /\ InitCommon
  /\ games = {GameId}
  /\ \E sh \in Shuffles :
       \/ game = RoundDealt(PauseRound, sh)
       \/ \E w \in 1..NumPlayers : game = BidsMade(w, sh)
       \/ \E w \in 1..NumPlayers : game = TrumpChosen(w, sh)

NextPause ==
  \/ \E s \in SocketIds : disconnectOld(s)
  \/ \E s \in SocketIds, i \in 1..Len(Names) : rejoinGameOld(s, Names[i])

SpecPause == InitPause /\ [][NextPause]_vars

(***************************************************************************)
(* The halting specification: the pausing variant's round PauseRound from  *)
(* its deal, played by the seated sockets while players disconnect and     *)
(* rejoin.                                                                 *)
(***************************************************************************)
RoundDealtOld(r, sh) ==
  startNewRoundOld(
    [Seated EXCEPT
       !.phase = PLAYING,
       !.roundNumber = r - 1,
       !.cardsPerPlayer = cardsForRoundOld(r - 1),
       !.dealerId = Seated.players[((r - 2) % NumPlayers) + 1].id,
       !.dealer = Seated.players[((r - 2) % NumPlayers) + 1].name,
       !.hands = [i \in 1..NumPlayers |-> << >>]],
    sh)

InitHalt ==
  /\ InitCommon
  /\ games = {GameId}
  /\ \E sh \in Shuffles : game = RoundDealtOld(PauseRound, sh)

NextHalt ==
  \/ \E s \in SocketIds, v \in PredictionInputs : makePredictionOld(s, v)
  \/ \E s \in SocketIds, suit \in TrumpInputs : selectTrumpOld(s, suit)
  \/ \E s \in SocketIds : \E c \in PlayInputs(game, s) : playCardOld(s, c)
  \/ \E sh \in Shuffles : RevealTimerOld(sh)
  \/ \E s \in SocketIds : disconnectOldWithin(s, MaxHaltEvents)
  \/ \E s \in SocketIds, i \in 1..Len(Names) : rejoinGameOldWithin(s, Names[i], MaxHaltEvents)

SpecHalt == InitHalt /\ [][NextHalt]_vars

(***************************************************************************)
(* The fair specification: four seated players who stay connected; the     *)
(* host starts the game once, and only the player whose turn it is acts,   *)
(* with a legal action.  The continuation and the current player's action  *)
(* are taken whenever they stay enabled.                                   *)
(***************************************************************************)
\* rounds that may be dealt and cards that may be played in a round: all
FairRounds == LastRound
FairPlays == DeckSize

\* the players bid 0 until round FreeBidRound, from which on each bids any
\* of 0..MaxBid
FreeBidRound == 28

FairBids(g) == IF g.roundNumber >= FreeBidRound THEN 0..MaxBid ELSE {0}

FairTrumps == {SUITS[1]}

\* the cards of the current player's hand that playCard accepts
LegalCards(g, lk) ==
  {c \in Cards(HandOf(g, g.currentPlayer)) : playCardResult(g, lk, g.currentPlayer, c) = ErrNone}

InitFair ==
  /\ InitCommon
  /\ games = {GameId}
  /\ game = Seated

FairStart ==
  game.phase = WAITING_FOR_PLAYERS /\ \E sh \in Shuffles : startGame(game.players[1].id, sh)

FairBid == \E v \in FairBids(game) : makePredictionWithin(game.currentPlayer, v, 0, FairRounds)

FairTrump == \E suit \in FairTrumps : selectTrump(game.currentPlayer, suit)

FairPlay ==
  \E c \in FirstOf(LegalCards(game, locks)) : playCardWithin(game.currentPlayer, c, FairPlays)

FairReveal == \E sh \in Shuffles : RevealTimerWithin(sh, FairRounds)

NextFair == FairStart \/ FairBid \/ FairTrump \/ FairPlay \/ FairReveal

SpecFair ==
  /\ InitFair /\ [][NextFair]_vars
  /\ WF_vars(FairStart) /\ WF_vars(FairBid) /\ WF_vars(FairTrump)
  /\ WF_vars(FairPlay) /\ WF_vars(FairReveal)

(***************************************************************************)
(* The bidding specification: a dealt round in which any open socket may   *)
(* send any of the numbers 0..MaxBid + 2 as its prediction.                *)
(***************************************************************************)
BidInputs == 0..(MaxBid + 2)

NextBids ==
  \/ \E s \in SocketIds, v \in BidInputs : makePrediction(s, v)
  \/ \E s \in SocketIds, suit \in TrumpInputs : selectTrump(s, suit)

SpecBids == Init /\ [][NextBids]_vars

(***************************************************************************)
(* The stale-handle specification: a dealt round in which one player       *)
(* rejoins and the sockets, the one left behind included, go on bidding.   *)
(***************************************************************************)
NextStale ==
  \/ \E s \in SocketIds, i \in 1..Len(Names) : rejoinGame(s, Names[i])
  \/ \E s \in SocketIds, v \in PredictionInputs :
       makePredictionWithin(s, v, MaxEvents + 1, MaxRounds)
  \/ \E s \in SocketIds, suit \in TrumpInputs : selectTrump(s, suit)

SpecStale == Init /\ [][NextStale]_vars

(***************************************************************************)
(* Claims.                                                                 *)
(***************************************************************************)
Deck == {createDeck[i] : i \in 1..DeckSize}

InPlay == games # {} /\ ~crashed /\ game.phase = PLAYING

\* the four conditions of the play rule, for socket c and a card
PlayRule(c, card) ==
  /\ c = game.currentPlayer
  /\ ~game.isEvaluatingTrick
  /\ HasCard(HandOf(game, c), card)
  /\ \/ Len(game.currentTrick) = 0
     \/ ~HasSuit(HandOf(game, c), game.leadSuit)
     \/ card.suit = game.leadSuit

\* C1: in phase Playing, a playCard(card) from connection c is accepted if
\* and only if c is currentActor, trickLock is not held, the card is in c's
\* hand, and currentTrick is empty or c holds no card of leadSuit or the
\* card is of leadSuit.
C1_PlayAcceptedIffRule ==
  InPlay =>
    \A c \in live, card \in Deck :
      (playCardResult(game, locks, c, card) = ErrNone) <=> PlayRule(c, card)

\* a step of the reveal continuation
RevealStep == ~crashed /\ timers # << >> /\ timers' = Tail(timers)

\* the seats (1-based) walked in rotation from the seat after the dealer,
\* the dealer being the player whose name is game.dealer
SeatsAfterDealer(g) ==
  LET d == FindIndexByName(g.players, g.dealer)
  IN [k \in 1..Len(g.players) |-> ((d + k) % Len(g.players)) + 1]

\* the reference highest bidder over the seated players' predictions
RefHighestBidder(g) ==
  LET order == SeatsAfterDealer(g)
      bid(i) == g.predictions[g.players[order[i]].id]
      has(i) == g.players[order[i]].id \in DOMAIN g.predictions
      best == {i \in 1..Len(order) :
                 has(i) /\ \A j \in 1..Len(order) : has(j) => bid(j) <= bid(i)}
  IN IF best = {} THEN NULL
     ELSE g.players[order[CHOOSE i \in best : \A j \in best : i <= j]].id

\* a makePrediction step that records the 4th bid of the round
FourthBid(s, v) ==
  /\ makePrediction(s, v)
  /\ Cardinality(DOMAIN game.predictions) = NumPlayers - 1
  /\ Cardinality(DOMAIN game'.predictions) = NumPlayers

\* C3: when a round is scored, a player whose prediction equals the tricks
\* won gains prediction*10 (prediction >= 10) or prediction+10 points and no
\* plump; any other player gains one plump and no points.
C3_ScoringRule ==
  [][(RevealStep /\ SumMap(game.tricks) = game.cardsPerPlayer) =>
       \A i \in 1..Len(game.players) :
         LET id == game.players[i].id
             hit == /\ id \in DOMAIN game.predictions
                    /\ id \in DOMAIN game.tricks
                    /\ game.predictions[id] = game.tricks[id]
             p == GetOr0(game.predictions, id)
         IN IF hit
            THEN /\ GetOr0(game'.scores, id) =
                      GetOr0(game.scores, id) + (IF p >= 10 THEN p * 10 ELSE p + 10)
                 /\ GetOr0(game'.plumps, id) = GetOr0(game.plumps, id)
            ELSE /\ GetOr0(game'.plumps, id) = GetOr0(game.plumps, id) + 1
                 /\ GetOr0(game'.scores, id) = GetOr0(game.scores, id)]_vars

\* C4: when the 4th bid of a round is recorded, highestBidder is the player
\* with the greatest prediction, ties going to the first tied player in
\* rotation from the seat after the dealer.
C4_HighestBidderRule ==
  [][\A s \in SocketIds, v \in PredictionInputs :
       FourthBid(s, v) => game'.highestBidder = RefHighestBidder(game')]_vars

\* C5: in phase Bidding a makePrediction from a connection other than
\* currentActor is rejected with 'not your turn': nothing is recorded, and
\* predictions, currentActor and phase are unchanged.
C5_OutOfTurnBidRejected ==
  [][\A s \in SocketIds, v \in PredictionInputs :
       (makePrediction(s, v) /\ s # game.currentPlayer) =>
         /\ game'.predictions = game.predictions
         /\ game'.currentPlayer = game.currentPlayer
         /\ game'.phase = game.phase
         /\ reply' = ErrNotYourTurn]_vars

\* C6: right after the 4th bid of a round the phase is Playing in a
\* single-card round and SelectingTrump otherwise, currentActor is
\* highestBidder, and SelectingTrump is never the phase of a single-card round.
C6_AfterFourthBid ==
  /\ [](game.phase = SELECTING_TRUMP => game.roundNumber \notin 13..16)
  /\ [][\A s \in SocketIds, v \in PredictionInputs :
          FourthBid(s, v) =>
            /\ game'.phase = IF game.roundNumber \in 13..16
                             THEN PLAYING ELSE SELECTING_TRUMP
            /\ game'.currentPlayer = game'.highestBidder]_vars

\* C7: selectTrump takes effect only in phase SelectingTrump from
\* highestBidder; from any other connection it is rejected and leaves
\* trumpSuit, phase and currentActor unchanged.
C7_OnlyHighestBidderSelectsTrump ==
  [][\A s \in SocketIds, suit \in TrumpInputs :
       (selectTrump(s, suit) /\ ~(game.phase = SELECTING_TRUMP /\ s = game.highestBidder)) =>
         /\ game'.trumpSuit = game.trumpSuit
         /\ game'.phase = game.phase
         /\ game'.currentPlayer = game.currentPlayer
         /\ reply' # ErrNone]_vars

\* the ranks of the card values, lowest first
RankOrder == <<"2", "3", "4", "5", "6", "7", "8", "9", "10", "J", "Q", "K", "A">>

RefRank(card) == CHOOSE i \in 1..Len(RankOrder) : RankOrder[i] = card.value

\* the reference winner of a completed trick: the play of the highest trump
\* if a trump was played in a round with more than one card, otherwise the
\* play of the highest card of the suit that was led
RefWinner(trick, trumpSuit, roundNumber) ==
  LET lead == trick[1].card.suit
      trumps == {i \in 1..Len(trick) :
                   roundNumber \notin 13..16 /\ trick[i].card.suit = trumpSuit}
      pool == IF trumps # {} THEN trumps
              ELSE {i \in 1..Len(trick) : trick[i].card.suit = lead}
  IN trick[CHOOSE i \in pool : \A j \in pool :
             RefRank(trick[j].card) <= RefRank(trick[i].card)].playerId

\* C2: the winner computed for a completed trick is the reference winner:
\* the highest trump if any trump was played, otherwise the highest card of
\* the lead suit; single-card rounds (13..16) use the lead-suit rule only.
C2_TrickWinnerIsReference ==
  [][(timers = << >> /\ timers' # << >>) =>
       /\ Len(game'.currentTrick) = NumPlayers
       /\ Head(timers').winner =
            RefWinner(game'.currentTrick, game'.trumpSuit, game'.roundNumber)]_vars

\* a trick of round 17 that a trump took from a higher card of the lead suit
C2_Witness ==
  /\ timers # << >>
  /\ game.roundNumber = 17
  /\ game.currentTrick[1].card = Card("hearts", "K")
  /\ game.trumpSuit = "spades"
  /\ \E i \in 2..NumPlayers :
       /\ game.currentTrick[i].card = Card("spades", "2")
       /\ game.currentTrick[i].playerId = Head(timers).winner

\* C6 witnesses: the state after the 4th bid of a round that selects trump
C6_Witness ==
  /\ ~crashed
  /\ game.phase = SELECTING_TRUMP
  /\ game.roundNumber = 17
  /\ Cardinality(DOMAIN game.predictions) = NumPlayers
  /\ game.currentPlayer = game.highestBidder

C10_RevealContinuation ==
  [][RevealStep =>
       /\ game'.currentTrick = << >>
       /\ game'.leadSuit = NoSuit
       /\ ~game'.isEvaluatingTrick
       /\ IF SumMap(game.tricks) = game.cardsPerPlayer
          THEN /\ <<game'.scores, game'.plumps>> # <<game.scores, game.plumps>>
               /\ IF game.roundNumber < LastRound
                  THEN /\ game'.roundNumber = game.roundNumber + 1
                       /\ game'.phase = MAKING_PREDICTIONS
                  ELSE game'.phase = GAME_OVER
          ELSE /\ game.phase = PLAYING /\ game'.phase = PLAYING
               /\ game'.currentPlayer =
                    RefWinner(game.currentTrick, game.trumpSuit, game.roundNumber)]_vars

\* the fixed schedule of cards per player
RefSchedule(r) ==
  IF r \in 1..13 THEN 14 - r ELSE IF r \in 13..16 THEN 1 ELSE r - 15

\* a step that deals a round: startGame, or the continuation after a round
DealStep ==
  /\ ~crashed
  /\ game'.phase = MAKING_PREDICTIONS
  /\ game'.hands # game.hands
  /\ game'.predictions = EmptyMap
  /\ Len(game.players) = NumPlayers
  /\ game.phase = WAITING_FOR_PLAYERS \/ RevealStep \/ game'.roundNumber # game.roundNumber

\* C11: the cardsPerPlayer used to deal round r in 1..28 is the fixed
\* schedule (14-r, then 1 for rounds 13..16, then r-15), every seat is dealt
\* that many cards, and 4*cardsPerPlayer <= 52.
C11_CardsFollowSchedule ==
  [][DealStep =>
       /\ game'.roundNumber \in 1..LastRound
       /\ game'.cardsPerPlayer = RefSchedule(game'.roundNumber)
       /\ \A i \in 1..NumPlayers :
            Len(HandOf(game', game'.players[i].id)) = game'.cardsPerPlayer
       /\ NumPlayers * game'.cardsPerPlayer <= DeckSize]_vars

\* round 16, the last single-card round, dealt by the continuation of round 15
C11_Witness ==
  /\ rounds = 1
  /\ game.phase = MAKING_PREDICTIONS
  /\ game.roundNumber = 16
  /\ game.cardsPerPlayer = 1
  /\ \A i \in 1..NumPlayers : Len(HandOf(game, game.players[i].id)) = 1

\* the seat (0-based) of the player named as dealer
DealerSeat(g) == FindIndexByName(g.players, g.dealer)

\* C12: the dealer seat of round r+1 is (dealer seat of round r + 1) mod 4,
\* so that over rounds 1..28 each seat deals 7 times.
C12_DealerRotates ==
  [][(RevealStep /\ game'.roundNumber = game.roundNumber + 1) =>
       DealerSeat(game') = (DealerSeat(game) + 1) % NumPlayers]_vars

\* C13: after startGame roundNumber stays in 1..28 and changes only by +1
\* when the continuation of a round's last trick has scored the round; the
\* phase becomes GameOver exactly when that round is round 28.
C13_RoundNumberAdvances ==
  /\ [](game.phase # WAITING_FOR_PLAYERS => game.roundNumber \in 1..LastRound)
  /\ [][/\ (game.phase # WAITING_FOR_PLAYERS /\ game'.roundNumber # game.roundNumber)
           => /\ RevealStep
              /\ SumMap(game.tricks) = game.cardsPerPlayer
              /\ game.roundNumber < LastRound
              /\ game'.roundNumber = game.roundNumber + 1
        /\ (game'.phase = GAME_OVER /\ game.phase # GAME_OVER)
           => (RevealStep /\ game.roundNumber = LastRound
                 /\ SumMap(game.tricks) = game.cardsPerPlayer)
        /\ (RevealStep /\ game.roundNumber = LastRound
              /\ SumMap(game.tricks) = game.cardsPerPlayer)
           => game'.phase = GAME_OVER]_vars

\* a joinGame step that adds a player: no other handler lengthens players
JoinStep == Len(game'.players) = Len(game.players) + 1

\* C14: a game never has more than 4 players, and a joinGame on a game with
\* 4 players, or one that has left WaitingForPlayers, adds no player.
C14_AtMostFourPlayers ==
  /\ [](Len(game.players) <= NumPlayers)
  /\ [][JoinStep => (Len(game.players) < NumPlayers
                       /\ game.phase = WAITING_FOR_PLAYERS)]_vars

\* a join refused by a game that has been started
C14_Witness ==
  /\ games # {}
  /\ game.phase = MAKING_PREDICTIONS
  /\ Len(game.players) = NumPlayers
  /\ reply = ErrFull

\* C15: a joinGame with the name of a player already in the game adds no
\* player, and the names of a game's players are pairwise distinct.
C15_NamesDistinct ==
  \A i, j \in 1..Len(game.players) :
    i # j => game.players[i].name # game.players[j].name

\* C16: startGame on a game without exactly 4 players is rejected and changes
\* nothing; with 4 players it leaves phase Bidding, roundNumber 1, 13 cards in
\* each of the four hands, no predictions, and currentActor the seat after
\* the dealer.
C16_StartGame ==
  [][\A s \in SocketIds, sh \in Shuffles :
       startGame(s, sh) =>
         IF games = {} \/ Len(game.players) # NumPlayers
         THEN game' = game /\ reply' = (IF games = {} THEN ErrNotFound ELSE ErrNeedFour)
         ELSE /\ game'.phase = MAKING_PREDICTIONS
              /\ game'.roundNumber = 1
              /\ Cardinality(DOMAIN game'.hands) = NumPlayers
              /\ \A i \in 1..NumPlayers :
                   Len(HandOf(game', game'.players[i].id)) = FirstRoundCards
              /\ game'.predictions = EmptyMap
              /\ game'.currentPlayer =
                   game'.players[((DealerSeat(game') + 1) % NumPlayers) + 1].id]_vars

\* C17: when a seated player's socket disconnects, the player is marked
\* disconnected; if the socket is the current player's, previousPhase takes
\* the phase held before the disconnect and the phase becomes PAUSED;
\* otherwise the phase is unchanged.
DisconnectStep(s) ==
  /\ s \in live /\ s \notin live'
  /\ games # {} /\ IsPlayer(game.players, s)

C17_DisconnectPauses ==
  [][\A s \in SocketIds : DisconnectStep(s) =>
       /\ game'.players[FindIndex(game.players, s) + 1].disconnected
       /\ IF game.currentPlayer = s
          THEN game'.phase = PAUSED /\ game'.previousPhase = game.phase
          ELSE game'.phase = game.phase]_vars

\* C18: a rejoinGame sets the phase to previousPhase exactly when the game is
\* PAUSED and, once the rejoining player is marked connected, no player is
\* disconnected; in every other case, and so while another player is still
\* away, the phase stays what it was.
RejoinStep == events' = events + 1 /\ live' = live

C18_ResumeWhenAllBack ==
  [][RejoinStep =>
       IF game.phase = PAUSED /\ AllConnected(game'.players)
       THEN game'.phase = game.previousPhase
       ELSE game'.phase = game.phase]_vars

\* a game that was paused, kept paused while a second player was away, and
\* resumed in its earlier phase when the last player came back
C18_Witness ==
  /\ events = 4
  /\ Cardinality(live) = NumSockets - 2
  /\ game.phase = SELECTING_TRUMP
  /\ game.previousPhase = SELECTING_TRUMP
  /\ AllConnected(game.players)


\* C19: a rejoinGame that moves a player from handle h to handle h2 keeps
\* the player's values in hands, predictions, tricks, scores and plumps, now
\* under h2 and no longer under h, leaves the other players' entries as they
\* were, and turns every reference to h in currentTrick, currentPlayer and
\* highestBidder into a reference to h2.
RemapStep(i, h, h2) ==
  /\ i \in 1..Len(game.players) /\ Len(game'.players) = Len(game.players)
  /\ game.players[i].id = h /\ game'.players[i].id = h2 /\ h # h2

MapMoved(m, m2, h, h2) ==
  /\ DOMAIN m2 = IF h \in DOMAIN m THEN (DOMAIN m \ {h}) \cup {h2} ELSE DOMAIN m
  /\ h \in DOMAIN m => m2[h2] = m[h]
  /\ \A k \in DOMAIN m \ {h, h2} : m2[k] = m[k]
  /\ (h \notin DOMAIN m /\ h2 \in DOMAIN m) => m2[h2] = m[h2]

RefMoved(r, r2, h, h2) == r2 = IF r = h THEN h2 ELSE r

TrickMoved(t, t2, h, h2) ==
  /\ Len(t2) = Len(t)
  /\ \A k \in 1..Len(t) :
       /\ t2[k].card = t[k].card
       /\ RefMoved(t[k].playerId, t2[k].playerId, h, h2)

Remapped(g, g2, h, h2) ==
  /\ MapMoved(g.hands, g2.hands, h, h2)
  /\ MapMoved(g.predictions, g2.predictions, h, h2)
  /\ MapMoved(g.tricks, g2.tricks, h, h2)
  /\ MapMoved(g.scores, g2.scores, h, h2)
  /\ MapMoved(g.plumps, g2.plumps, h, h2)
  /\ TrickMoved(g.currentTrick, g2.currentTrick, h, h2)
  /\ RefMoved(g.currentPlayer, g2.currentPlayer, h, h2)
  /\ RefMoved(g.highestBidder, g2.highestBidder, h, h2)

C19_RemapPreservesState ==
  [][\A i \in 1..NumPlayers, h, h2 \in SocketIds :
       RemapStep(i, h, h2) => Remapped(game, game', h, h2)]_vars


\* C20: rejoinGame takes effect only for a player marked disconnected: no
\* step gives a new handle to a player who is still connected, and a
\* rejoinGame that names a connected player leaves the game as it was.
NamedPlayer(g, playerName) == g.players[FindIndexByName(g.players, playerName) + 1]

C20_RejoinOnlyDisconnected ==
  [][/\ \A i \in 1..Len(game.players), h, h2 \in SocketIds :
          RemapStep(i, h, h2) => game.players[i].disconnected
     /\ \A s \in SocketIds, i \in 1..Len(Names) :
          ( /\ rejoinGame(s, Names[i])
            /\ games # {}
            /\ FindIndexByName(game.players, Names[i]) # -1
            /\ ~NamedPlayer(game, Names[i]).disconnected )
          => game' = game]_vars


\* C21: whenever a handler answers with an error, every field of the game
\* is what it was before, and the error is the only message of the step and
\* goes to one open socket, not to the room.
C21_RejectionChangesNothing ==
  [][reply' # NoReply =>
       /\ game' = game /\ games' = games
       /\ \E s \in live : sent' = {Msg(s, {})}]_vars

\* a card that breaks the follow-suit rule has just been refused
C21_Witness ==
  /\ reply = ErrFollowSuit
  /\ sent = {Msg(game.currentPlayer, {})}
  /\ game.phase = PLAYING /\ Len(game.currentTrick) > 0


\* C22: no message addressed to the room carries a card of any player's
\* hand, and outside the single-card rounds a message to one socket carries
\* only cards of the hand held under that socket's handle.
C22_NoHandsToRoom ==
  \A m \in sent :
    /\ m.to = Room => m.shown = {}
    /\ (m.to # Room /\ ~isSingleCardRound(game.roundNumber)) =>
         \A c \in m.shown : c[1] = m.to


\* C23: in a single-card round, while the four bids are not all in, no
\* message that reaches a player carries the card held under that player's
\* own handle (a message to the room reaches every player).
C23_OwnCardHiddenWhileBidding ==
  (game.phase = MAKING_PREDICTIONS /\ isSingleCardRound(game.roundNumber)) =>
    \A m \in sent :
      IF m.to = Room THEN m.shown = {} ELSE \A c \in m.shown : c[1] # m.to


\* C24: every recorded prediction is a whole number from 0 to the round's
\* cardsPerPlayer.
C24_PredictionsInRange ==
  \A k \in DOMAIN game.predictions : game.predictions[k] \in 0..game.cardsPerPlayer


\* C25: once the game has been started, no step lowers or resets the score
\* or the plump count of any seat, and they change only in the step that
\* scores a completed round.
SeatScore(g, i) == GetOr0(g.scores, g.players[i].id)

SeatPlumps(g, i) == GetOr0(g.plumps, g.players[i].id)

ScoringStep == RevealStep /\ SumMap(game.tricks) = game.cardsPerPlayer

C25_TotalsNeverReset ==
  [][game.phase # WAITING_FOR_PLAYERS =>
       \A i \in 1..Len(game.players) :
         /\ SeatScore(game', i) >= SeatScore(game, i)
         /\ SeatPlumps(game', i) >= SeatPlumps(game, i)
         /\ (SeatScore(game', i) # SeatScore(game, i)
             \/ SeatPlumps(game', i) # SeatPlumps(game, i)) => ScoringStep]_vars


\* C26: once the phase is GAME_OVER, no step other than a rejoinGame changes
\* the phase, the round number, the scores, the plumps, the hands, the
\* predictions or the tricks of the game.
IsRejoin == \E s \in SocketIds, i \in 1..Len(Names) : rejoinGame(s, Names[i])

C26_GameOverIsFinal ==
  [][(game.phase = GAME_OVER /\ ~IsRejoin) =>
       /\ game'.phase = GAME_OVER
       /\ game'.roundNumber = game.roundNumber
       /\ game'.scores = game.scores /\ game'.plumps = game.plumps
       /\ game'.hands = game.hands
       /\ game'.predictions = game.predictions /\ game'.tricks = game.tricks]_vars


\* C27: while bids are made, the first bid is due from the seat after the
\* dealer; every bid recorded is the bid of the seated player whose turn it
\* is, who has not bid before in the round; the turn then passes to the next
\* seat; and bidding closes exactly when the four seated players have bid.
BidStep ==
  /\ game.phase = MAKING_PREDICTIONS
  /\ game'.roundNumber = game.roundNumber
  /\ game'.predictions # game.predictions
  /\ DOMAIN game.predictions \subseteq DOMAIN game'.predictions

SeatOf(g, id) == FindIndex(g.players, id)

C27_BidsInRotation ==
  /\ [](( game.phase = MAKING_PREDICTIONS /\ game.predictions = EmptyMap
          /\ Len(game.players) = NumPlayers )
         => SeatOf(game, game.currentPlayer) = (DealerSeat(game) + 1) % NumPlayers)
  /\ [](game.phase = MAKING_PREDICTIONS
         => DOMAIN game.predictions \subseteq PlayerIds(game.players))
  /\ [][BidStep =>
          LET k == game.currentPlayer IN
          /\ k \in PlayerIds(game.players)
          /\ k \notin DOMAIN game.predictions
          /\ DOMAIN game'.predictions = DOMAIN game.predictions \cup {k}
          /\ \A j \in DOMAIN game.predictions : game'.predictions[j] = game.predictions[j]
          /\ IF PlayerIds(game.players) \subseteq DOMAIN game'.predictions
             THEN game'.phase # MAKING_PREDICTIONS
             ELSE /\ game'.phase = MAKING_PREDICTIONS
                  /\ SeatOf(game', game'.currentPlayer)
                       = (SeatOf(game, k) + 1) % NumPlayers]_vars


\* C28: every completed round is scored once: the step that completes a
\* round gives each seat either points or one plump, never both and never
\* neither; the round number moves only in such a step; and so no seat ever
\* has more plumps than there are completed rounds.
RoundsCompleted(g) ==
  IF g.phase = WAITING_FOR_PLAYERS THEN 0
  ELSE IF g.phase = GAME_OVER THEN g.roundNumber
  ELSE g.roundNumber - 1

C28_ScoredOncePerRound ==
  /\ [](\A i \in 1..Len(game.players) : SeatPlumps(game, i) <= RoundsCompleted(game))
  /\ [][ScoringStep =>
          /\ RoundsCompleted(game') = RoundsCompleted(game) + 1
          /\ \A i \in 1..Len(game.players) :
               \/ /\ SeatScore(game', i) > SeatScore(game, i)
                  /\ SeatPlumps(game', i) = SeatPlumps(game, i)
               \/ /\ SeatScore(game', i) = SeatScore(game, i)
                  /\ SeatPlumps(game', i) = SeatPlumps(game, i) + 1]_vars
  /\ [][RoundsCompleted(game') # RoundsCompleted(game) =>
          (ScoringStep \/ game.phase = WAITING_FOR_PLAYERS)]_vars


\* C29: a reveal continuation that fires when the game has left the trick it
\* was scheduled for (the phase is no longer PLAYING) changes no field of the
\* game.
C29_StaleRevealIsNoOp ==
  [][(RevealStep /\ game.phase # PLAYING) => game' = game]_vars


\* C30: while the phase is MAKING_PREDICTIONS, SELECTING_TRUMP or PLAYING,
\* currentPlayer is the handle of one of the seated players.
C30_CurrentPlayerIsSeated ==
  game.phase \in {MAKING_PREDICTIONS, SELECTING_TRUMP, PLAYING}
    => game.currentPlayer \in PlayerIds(game.players)


\* C31: a handle that a rejoinGame has taken away from its player has no
\* part in the game any more: no prediction, hand or trick card is recorded
\* under it and it is neither currentPlayer nor highestBidder.
StaleHandles(g) == {Seated.players[i].id : i \in 1..NumPlayers} \ PlayerIds(g.players)

C31_OldHandleIsInvalid ==
  \A h \in StaleHandles(game) :
    /\ h \notin DOMAIN game.predictions
    /\ h \notin DOMAIN game.hands
    /\ \A k \in 1..Len(game.currentTrick) : game.currentTrick[k].playerId # h
    /\ game.currentPlayer # h
    /\ game.highestBidder # h


\* C32: a deal leaves 4 * cardsPerPlayer cards in the four hands; every
\* accepted play takes exactly the played card out of the hand of the player
\* whose turn it was and leaves the other hands alone; and no other step
\* changes the number of cards held.
CardsHeld(g) ==
  SumSeq([i \in 1..Len(g.players) |-> Len(HandOf(g, g.players[i].id))])

IsDeal ==
  /\ ~IsRejoin
  /\ game'.hands # game.hands
  /\ game'.phase = MAKING_PREDICTIONS /\ game'.predictions = EmptyMap

PlayStep == Len(game'.currentTrick) = Len(game.currentTrick) + 1

C32_CardsAccountedFor ==
  [][IF IsDeal
     THEN CardsHeld(game') = NumPlayers * game'.cardsPerPlayer
     ELSE IF PlayStep
     THEN LET a == game.currentPlayer
              c == game'.currentTrick[Len(game'.currentTrick)].card
          IN /\ CardsHeld(game') = CardsHeld(game) - 1
             /\ HasCard(HandOf(game, a), c)
             /\ HandOf(game', a) = RemoveCard(HandOf(game, a), c)
             /\ \A k \in DOMAIN game.hands \ {a} : HandOf(game', k) = HandOf(game, k)
     ELSE CardsHeld(game') = CardsHeld(game)]_vars


\* C33: whenever a highest bidder is recorded, it is the current handle of one
\* of the seated players.
C33_HighestBidderIsSeated ==
  (games # {} /\ game.highestBidder # NULL)
    => game.highestBidder \in PlayerIds(game.players)


\* C34: while the game is PAUSED, a step that is not a rejoinGame leaves it
\* PAUSED and records no prediction, no trump suit and no played card, and
\* scores nothing and starts no round.
C34_PausedGameStandsStill ==
  [][(games # {} /\ ~crashed /\ game.phase = PAUSED /\ ~RejoinStep)
       => /\ game'.phase = PAUSED
          /\ game'.predictions = game.predictions
          /\ game'.trumpSuit = game.trumpSuit
          /\ Len(game'.currentTrick) <= Len(game.currentTrick)
          /\ game'.hands = game.hands
          /\ game'.scores = game.scores
          /\ game'.plumps = game.plumps
          /\ game'.roundNumber = game.roundNumber]_vars


\* C35: a started game whose players stay connected and act in turn reaches
\* GAME_OVER, and until then every deal moves the round number up by one,
\* from round 1 to round LastRound.
C35_GameEnds ==
  /\ <>(game.phase = GAME_OVER /\ game.roundNumber = LastRound)
  /\ [][game.phase # WAITING_FOR_PLAYERS
          => \/ game'.roundNumber = game.roundNumber
             \/ game'.roundNumber = game.roundNumber + 1 /\ game'.phase = MAKING_PREDICTIONS]_vars
  /\ [][game.phase = WAITING_FOR_PLAYERS => game'.roundNumber = 1]_vars

C35_Witness ==
  game.phase = GAME_OVER /\ game.roundNumber = LastRound /\ rounds = LastRound - 1


\* C36: the dealer reference dealerId is the handle of the player in the
\* dealer's seat, before and after any rejoinGame.
C36_DealerIdIsDealersHandle ==
  (games # {} /\ ~crashed) => FindIndex(game.players, game.dealerId) = DealerSeat(game)


\* C37: the handles of the seated players are pairwise distinct.
C37_HandlesDistinct ==
  games # {} =>
    \A i, j \in 1..Len(game.players) :
      i # j => game.players[i].id # game.players[j].id


\* C38: a rejoinGame sent from the socket that already is the named player's
\* handle leaves the hands, predictions, tricks, scores and plumps as they
\* were.
C38_SameSocketRejoinKeepsMaps ==
  [][\A s \in SocketIds, i \in 1..Len(Names) :
       ( /\ rejoinGame(s, Names[i])
         /\ games # {}
         /\ oldSocketId(game, Names[i]) = s )
       => /\ game'.hands = game.hands
          /\ game'.predictions = game.predictions
          /\ game'.tricks = game.tricks
          /\ game'.scores = game.scores
          /\ game'.plumps = game.plumps]_vars


\* C39: the phase remembered for the resume is never PAUSED, and the game is
\* not PAUSED while all of its players are connected.
C39_PauseIsWellFormed ==
  games # {} =>
    /\ game.previousPhase # PAUSED
    /\ AllConnected(game.players) => game.phase # PAUSED


\* C40: whenever the phase is PLAYING and no trick is being evaluated, the
\* current player holds a card that the playCard handler accepts.
C40_PlayingNeverStalls ==
  (InPlay /\ ~game.isEvaluatingTrick) => LegalCards(game, locks) # {}


====
